---- MODULE Spec2Model ----
(***************************************************************************)
(* Model of cmd/service.go: ServiceCommand.Run, the bootstrap-and-lifecycle *)
(* sequence of the agent, and ServiceCommand.readConfig.                    *)
(*                                                                          *)
(* Run is one thread of control; the model cuts it at every call it makes   *)
(* to a collaborator, so that the order of those calls is observable.       *)
(* `pc` is the position of Run.  Collaborators whose code is not in the     *)
(* repository (setupLoggers, setupAgent, startupJoin, handleSignals, the    *)
(* agent, the servers, the log gate) follow their interface contract.       *)
(***************************************************************************)
EXTENDS Integers, Sequences, FiniteSets, TLC

\* ------------------------------------------------------------ bounds
MaxJoin     == 2   \* longest initial-join address list
MaxServices == 2   \* most service descriptors
MaxChecks   == 2   \* most check descriptors
MaxLogWrites == 1  \* log entries background subsystems write in one run
MaxDumps    == 2   \* telemetry-dump signals delivered in one run
MaxGateWrites  == 5  \* writes to a log gate exercised on its own
MaxGateFlushes == 2  \* flushes of a log gate exercised on its own

\* ------------------------------------------------------------ values
Nil    == "nil"       \* a nil handle
Handle == "handle"    \* a non-nil handle

NilConfig == [Nil |-> TRUE]   \* readConfig's nil result

\* No global metrics sink installed yet.
NoSink == [global |-> FALSE, signalHandler |-> FALSE, fanout |-> FALSE,
           EnableHostname |-> TRUE]

\* Values the three flags can be given; "" is the flag left at its default.
LogLevelFlags == {"", "DEBUG"}
NodeFlags     == {"", "n1"}
BindFlags     == {"", "10.0.0.1"}

\* What os.Hostname() can return: a name, or an error.
HostnameResults == {[name |-> "host1", err |-> FALSE], [name |-> "", err |-> TRUE]}

\* Build metadata on the command (c.Revision, c.Version, c.VersionPrerelease).
BuildInfo == [Revision |-> "rev", Version |-> "0.1", VersionPrerelease |-> "dev"]

Descriptors(n) == [i \in 1..n |-> [Name |-> i]]

\* The configuration the process is launched with, for the fields Run reads
\* (StatsiteAddr l.62, StartJoin l.89, Services l.95, Checks l.105, and what
\* setupAgent is configured to start) and readConfig's code never assigns.
Deployments ==
    [StatsiteAddr : {"", "statsite:8125"},
     StartJoin    : {[i \in 1..n |-> i] : n \in 0..MaxJoin},
     Services     : {Descriptors(n) : n \in 0..MaxServices},
     Checks       : {Descriptors(n) : n \in 0..MaxChecks},
     StartRPC     : BOOLEAN,
     StartHTTP    : BOOLEAN]

VARIABLES
    pc,          \* position of Run
    args,        \* c.args: the parsed command line
    deployed,    \* the launch configuration (see Deployments)
    config,      \* the snapshot readConfig returned
    ui,          \* c.Ui: what was written to the operator-facing output
    agent,       \* c.agent
    rpcServer,   \* c.rpcServer
    httpServer,  \* c.httpServer
    defers,      \* Run's stack of deferred calls
    shutdowns,   \* the Shutdown calls made so far, in order
    shutdownErrs,\* the handles whose Shutdown returned an error
    lastErr,     \* the collaborator call that returned an error, or "none"
    joinCalls,   \* the agent's join calls: the addresses given, how many were reached
    services,    \* names registered with agent.AddService, in order
    checks,      \* names registered with agent.AddCheck, in order
    idx,         \* loop index of the registration loop in progress
    synced,      \* number of agent.StartSync calls
    metricsSink, \* the global metrics sink installed (telemetry)
    dumps,       \* metric dumps triggered by the dump signal
    gate,        \* the log gate: gated or flushed, its buffer, what it let through
    termSignal,  \* a termination signal was delivered to handleSignals
    signalsReturned, \* handleSignals has returned
    ret,         \* Run's return value, -1 while running
    retFrom,     \* the step whose return statement ended Run, "" while running
    hostLookup   \* the os.Hostname() call readConfig made, if it made one

vars == <<pc, args, deployed, config, ui, agent, rpcServer, httpServer, defers,
          shutdowns, shutdownErrs, lastErr, joinCalls, services, checks, idx,
          synced, metricsSink, dumps, gate, termSignal, signalsReturned, ret,
          retFrom, hostLookup>>

handles   == <<agent, rpcServer, httpServer>>
teardown  == <<defers, shutdowns, shutdownErrs>>
registry  == <<joinCalls, services, checks, idx, synced>>
telemetry == <<metricsSink, dumps>>
signals   == <<termSignal, signalsReturned>>
inputs    == <<args, deployed>>
env       == <<args, deployed, hostLookup>>
result    == <<ret, retFrom>>

Range(s) == {s[i] : i \in 1..Len(s)}
Last(s)  == s[Len(s)]
Front(s) == SubSeq(s, 1, Len(s) - 1)

\* ------------------------------------------------------------ readConfig
\* flag.FlagSet.Parse into cmdConfig: the three string flags, or an error for
\* a flag that is not defined.
ParseFlags(a) ==
    [err |-> a.bogus,
     cmdConfig |-> [LogLevel |-> a.logLevel, NodeName |-> a.node, BindAddr |-> a.bind]]

DefaultConfig ==
    [LogLevel |-> "INFO", NodeName |-> "", BindAddr |-> "0.0.0.0",
     Ports |-> [HTTP |-> 8500, Server |-> 8300],
     StartJoin |-> <<>>,
     Revision |-> "", Version |-> "", VersionPrerelease |-> ""]

\* The merge of the defaults with the command line: the code has it commented
\* out (l.159-170), so the snapshot is the defaults whatever the flags say.
MergedConfig(cmdConfig) == DefaultConfig

\* Mutant: the looked-up hostname is not stored.
ResolveNodeNameKept(nodeName, hostname) == nodeName

\* The node name of the snapshot: the host's name when it is unset (l.172-179).
ResolveNodeName(nodeName, hostname) == IF nodeName = "" THEN hostname ELSE nodeName

\* Help() (l.22-24): the usage text, which cmdFlags.Usage (l.147) writes with
\* c.Ui.Output when the flag package rejects the command line.
Help == ""

\* readConfig's result for a command line and a hostname lookup outcome; the
\* second component is what it writes to c.Ui, the third whether it called
\* os.Hostname().
readConfig(a, host, dep) ==
    LET parsed == ParseFlags(a)
        merged == MergedConfig(parsed.cmdConfig)
    IN  IF parsed.err
        THEN <<NilConfig, <<<<"Output", Help>>>>, FALSE>>
        ELSE IF merged.NodeName = "" /\ host.err
        THEN <<NilConfig, <<<<"Error", "Error determining hostname">>>>, TRUE>>
        ELSE <<[merged EXCEPT !.NodeName = ResolveNodeName(merged.NodeName, host.name),
                              !.Revision = BuildInfo.Revision,
                              !.Version = BuildInfo.Version,
                              !.VersionPrerelease = BuildInfo.VersionPrerelease,
                              !.StartJoin = dep.StartJoin]
                 @@ [StatsiteAddr |-> dep.StatsiteAddr,
                     Services |-> dep.Services,
                     Checks |-> dep.Checks],
               <<>>, merged.NodeName = "">>

\* ------------------------------------------------------------ Run: returning
\* A return statement of Run: the value is set and the deferred calls run.
Return(v) == /\ ret' = v
             /\ retFrom' = pc
             /\ pc' = "return"

\* The log gate before setupLoggers: gated and empty.  `written` is the history
\* of the entries written to it, in arrival order.
NewGate == [created |-> FALSE, flushed |-> FALSE, buf |-> <<>>, out |-> <<>>,
            flushes |-> 0, writes |-> 0, written |-> <<>>]

\* No os.Hostname() call was made.
NoLookup == [called |-> FALSE, name |-> "", err |-> FALSE]

\* Every command line: each flag given or not, and a flag that is not defined.
CommandLines ==
    [logLevel : LogLevelFlags, node : NodeFlags, bind : BindFlags, bogus : BOOLEAN]

\* The command lines of the lifecycle runs: no flag, every flag, a bad flag.
LifecycleCommandLines ==
    {a \in CommandLines :
        \/ a.logLevel = "" /\ a.node = "" /\ a.bind = ""
        \/ a.logLevel /= "" /\ a.node /= "" /\ a.bind /= "" /\ ~a.bogus}

\* The deployments of the configuration runs: as many join addresses as
\* services as checks, every subsystem configured to start.
ConfigDeployments ==
    {d \in Deployments :
        /\ Len(d.StartJoin) = Len(d.Services)
        /\ Len(d.Services) = Len(d.Checks)
        /\ d.StartRPC /\ d.StartHTTP}

InitWith(commandLines, deployments) ==
    /\ pc = "readConfig"
    /\ args \in commandLines
    /\ deployed \in deployments
    /\ config = NilConfig
    /\ ui = <<>>
    /\ agent = Nil /\ rpcServer = Nil /\ httpServer = Nil
    /\ defers = <<>> /\ shutdowns = <<>> /\ shutdownErrs = {}
    /\ lastErr = "none"
    /\ joinCalls = <<>> /\ services = <<>> /\ checks = <<>> /\ idx = 1
    /\ synced = 0
    /\ metricsSink = NoSink /\ dumps = 0
    /\ gate = NewGate
    /\ termSignal = FALSE /\ signalsReturned = FALSE
    /\ ret = -1 /\ retFrom = ""
    /\ hostLookup = NoLookup

Init == InitWith(LifecycleCommandLines, Deployments)

InitConfig == InitWith(CommandLines, ConfigDeployments)

\* l.34-40
ReadConfig ==
    /\ pc = "readConfig"
    /\ \E host \in HostnameResults :
         LET r == readConfig(args, host, deployed) IN
           /\ config' = r[1]
           /\ ui' = ui \o r[2]
           /\ hostLookup' = IF r[3] THEN [called |-> TRUE, name |-> host.name, err |-> host.err]
                                    ELSE hostLookup
           /\ IF r[1] = NilConfig
              THEN /\ Return(1)
                   /\ lastErr' = "config"
              ELSE /\ pc' = "gomaxprocs"
                   /\ UNCHANGED <<result, lastErr>>
    /\ UNCHANGED <<inputs, handles, teardown, registry, telemetry, gate, signals>>

\* l.42-45: the GOMAXPROCS warning, which never stops the run.
CheckGOMAXPROCS ==
    /\ pc = "gomaxprocs"
    /\ \E procs \in {1, 2} :
         ui' = IF procs = 1 THEN Append(ui, <<"Error", "WARNING: GOMAXPROCS">>) ELSE ui
    /\ pc' = "setupLoggers"
    /\ UNCHANGED <<env, config, handles, teardown, lastErr, registry, telemetry,
                   gate, signals, result>>

\* ------------------------------------------------------------ log gate
\* The gated writer: while gated a write is buffered, once flushed it is
\* forwarded; the first flush emits the buffer in order.
GateWrite(g, e) ==
    IF g.flushed
    THEN [g EXCEPT !.out = Append(@, e), !.writes = @ + 1]
    ELSE [g EXCEPT !.buf = Append(@, e), !.writes = @ + 1]

\* Mutant: the flush emits the buffer and keeps it.
GateFlushKeepsBuffer(g) ==
    [g EXCEPT !.flushed = TRUE, !.out = @ \o g.buf, !.flushes = @ + 1]

GateFlush(g) ==
    [g EXCEPT !.flushed = TRUE, !.out = @ \o g.buf, !.buf = <<>>, !.flushes = @ + 1]

\* setupLoggers: the log gate and writer, or nil writers after reporting why.
setupLoggers(ok) ==
    IF ok THEN [logWriter |-> Handle, ui |-> <<>>]
          ELSE [logWriter |-> Nil, ui |-> <<<<"Error", "Failed to setup logging">>>>]

\* l.47-51
SetupLoggers ==
    /\ pc = "setupLoggers"
    /\ \E ok \in BOOLEAN :
         LET r == setupLoggers(ok) IN
           /\ ui' = ui \o r.ui
           /\ IF r.logWriter = Nil
              THEN /\ Return(1)
                   /\ lastErr' = "loggers"
                   /\ UNCHANGED gate
              ELSE /\ gate' = [gate EXCEPT !.created = TRUE]
                   /\ pc' = "telemetry"
                   /\ UNCHANGED <<result, lastErr>>
    /\ UNCHANGED <<env, config, handles, teardown, registry, telemetry, signals>>

\* ------------------------------------------------------------ telemetry
\* l.57-74: the sink installed as the global one, given whether the statsite
\* sink (when an address is configured) could be created.
\* Mutant: hostname tagging is left on without a statsite sink.
TelemetrySinkHostnameOn(statsiteAddr) ==
    [global |-> TRUE, signalHandler |-> TRUE, fanout |-> statsiteAddr /= "",
     EnableHostname |-> TRUE]

TelemetrySink(statsiteAddr) ==
    IF statsiteAddr /= ""
    THEN [global |-> TRUE, signalHandler |-> TRUE, fanout |-> TRUE, EnableHostname |-> TRUE]
    ELSE [global |-> TRUE, signalHandler |-> TRUE, fanout |-> FALSE, EnableHostname |-> FALSE]

SetupTelemetry ==
    /\ pc = "telemetry"
    /\ \E sinkErr \in BOOLEAN :
         IF config.StatsiteAddr /= "" /\ sinkErr
         THEN /\ ui' = Append(ui, <<"Error", "Failed to start statsite sink">>)
              /\ metricsSink' = [metricsSink EXCEPT !.signalHandler = TRUE]
              /\ Return(1)
              /\ lastErr' = "telemetry"
         ELSE /\ metricsSink' = TelemetrySink(config.StatsiteAddr)
              /\ pc' = "setupAgent"
              /\ UNCHANGED <<ui, result, lastErr>>
    /\ UNCHANGED <<env, config, handles, teardown, registry, dumps, gate, signals>>

\* The dump signal: the handler installed at l.58 dumps the in-memory metrics.
\* The handler touches nothing of Run, so the signals followed are the ones
\* that come while Run waits in handleSignals.
DumpSignal ==
    /\ metricsSink.signalHandler
    /\ pc = "handleSignals"
    /\ dumps < MaxDumps
    /\ dumps' = dumps + 1
    /\ UNCHANGED <<pc, env, config, ui, handles, teardown, lastErr, registry,
                   metricsSink, gate, signals, result>>

\* ------------------------------------------------------------ subsystems
\* The outcomes of starting the subsystems: all started, or the first that fails.
StartOutcomes(dep) ==
    {"ok", "agent"} \cup (IF dep.StartRPC THEN {"rpc"} ELSE {})
                    \cup (IF dep.StartHTTP THEN {"http"} ELSE {})

\* Mutant: a failed start releases the agent only.
StartTeardownAgentOnly(dep, outcome) ==
    IF outcome \in {"rpc", "http"} THEN <<"agent">> ELSE <<>>

\* What setupAgent releases when a start fails: whatever it had started, the
\* latest first.
StartTeardown(dep, outcome) ==
    CASE outcome = "rpc"  -> <<"agent">>
      [] outcome = "http" -> (IF dep.StartRPC THEN <<"rpc">> ELSE <<>>) \o <<"agent">>
      [] OTHER            -> <<>>

\* The report of the releases that returned an error, in release order.
ReleaseErrors(released, errs) ==
    LET F[i \in 0..Len(released)] ==
          IF i = 0 THEN <<>>
          ELSE IF released[i] \in errs
               THEN Append(F[i - 1], <<"Error", "shutdown", released[i]>>)
               ELSE F[i - 1]
    IN  F[Len(released)]

\* setupAgent: start the agent, the RPC server and the HTTP server as
\* configured and record their handles; report a start error and release what
\* was started.
setupAgent(dep, outcome) ==
    [err        |-> outcome /= "ok",
     agent      |-> IF outcome = "agent" THEN Nil ELSE Handle,
     rpcServer  |-> IF dep.StartRPC /\ outcome \in {"ok", "http"} THEN Handle ELSE Nil,
     httpServer |-> IF dep.StartHTTP /\ outcome = "ok" THEN Handle ELSE Nil,
     released   |-> StartTeardown(dep, outcome),
     ui         |-> IF outcome = "ok" THEN <<>> ELSE <<<<"Error", "Error starting", outcome>>>>]

\* Mutant: the HTTP server's Shutdown deferred before the RPC server's.
DeferShutdownsHttpFirst(rpc, http) ==
    <<"agent">> \o (IF http /= Nil THEN <<"http">> ELSE <<>>)
                \o (IF rpc /= Nil THEN <<"rpc">> ELSE <<>>)

\* Mutant: the RPC server's Shutdown is not deferred.
DeferShutdownsNoRpc(rpc, http) ==
    <<"agent">> \o (IF http /= Nil THEN <<"http">> ELSE <<>>)

\* Mutant: the Shutdown calls are deferred without the nil tests.
DeferShutdownsAlways(rpc, http) == <<"agent", "rpc", "http">>

\* l.80-86: the deferred Shutdown calls, in the order the defer statements run.
DeferShutdowns(rpc, http) ==
    <<"agent">> \o (IF rpc /= Nil THEN <<"rpc">> ELSE <<>>)
                \o (IF http /= Nil THEN <<"http">> ELSE <<>>)

\* l.76-86
SetupAgent ==
    /\ pc = "setupAgent"
    /\ \E outcome \in StartOutcomes(deployed) :
         LET r == setupAgent(deployed, outcome) IN
           /\ agent' = r.agent
           /\ rpcServer' = r.rpcServer
           /\ httpServer' = r.httpServer
           /\ shutdowns' = shutdowns \o r.released
           /\ IF r.err
              THEN /\ \E errs \in SUBSET Range(r.released) :
                        /\ shutdownErrs' = shutdownErrs \cup errs
                        /\ ui' = ui \o r.ui \o ReleaseErrors(r.released, errs)
                   /\ Return(1)
                   /\ lastErr' = "agent"
                   /\ UNCHANGED defers
              ELSE /\ defers' = defers \o DeferShutdowns(r.rpcServer, r.httpServer)
                   /\ pc' = "startupJoin"
                   /\ UNCHANGED <<ui, shutdownErrs, result, lastErr>>
    /\ UNCHANGED <<env, config, registry, telemetry, gate, signals>>

\* A running subsystem writes a log entry through the log gate.
LogWrite ==
    /\ agent /= Nil
    /\ pc /= "done"
    /\ gate.writes < MaxLogWrites
    /\ gate' = [GateWrite(gate, gate.writes + 1)
                    EXCEPT !.written = Append(@, gate.writes + 1)]
    /\ UNCHANGED <<pc, env, config, ui, handles, teardown, lastErr, registry,
                   telemetry, signals, result>>

\* ------------------------------------------------------------ join
\* startupJoin: nothing to do for an empty list; otherwise one join call, an
\* error when no address could be reached.
startupJoin(addrs, reachable) ==
    IF Len(addrs) = 0
    THEN [err |-> FALSE, calls |-> <<>>]
    ELSE LET n == Cardinality(Range(addrs) \cap reachable)
         IN  [err |-> n = 0, calls |-> <<[addrs |-> addrs, n |-> n]>>]

\* Mutant: the join error is ignored.
JoinFatalNever(err) == FALSE

\* Mutant: the test of the join error is inverted.
JoinFatalInverted(err) == ~err

\* l.89-92: whether Run gives up after startupJoin.
JoinFatal(err) == err

StartupJoin ==
    /\ pc = "startupJoin"
    /\ \E reachable \in SUBSET Range(config.StartJoin) :
         LET r == startupJoin(config.StartJoin, reachable) IN
           /\ joinCalls' = joinCalls \o r.calls
           /\ lastErr' = IF r.err THEN "join" ELSE lastErr
           /\ IF JoinFatal(r.err)
              THEN /\ ui' = Append(ui, <<"Error", "join", 0>>)
                   /\ Return(1)
              ELSE /\ pc' = "services"
                   /\ UNCHANGED <<ui, result>>
    /\ idx' = 1
    /\ UNCHANGED <<env, config, handles, teardown, services, checks, synced,
                   telemetry, gate, signals>>

\* ------------------------------------------------------------ registration
\* Mutant: a failed registration is reported and skipped.
OnAddServiceContinue(err, name) ==
    IF err THEN [fatal |-> FALSE, ui |-> <<<<"Error", "Failed to register service", name>>>>]
           ELSE [fatal |-> FALSE, ui |-> <<>>]

\* l.98-101: what Run does with AddService's result for the service `name`.
OnAddService(err, name) ==
    IF err THEN [fatal |-> TRUE, ui |-> <<<<"Error", "Failed to register service", name>>>>]
           ELSE [fatal |-> FALSE, ui |-> <<>>]

\* l.95-102: one iteration of the loop over config.Services.
RegisterService ==
    /\ pc = "services"
    /\ idx <= Len(config.Services)
    /\ \E err \in BOOLEAN :
         LET name == config.Services[idx].Name
             r == OnAddService(err, name) IN
           /\ services' = IF err THEN services ELSE Append(services, name)
           /\ lastErr' = IF err THEN "service" ELSE lastErr
           /\ ui' = ui \o r.ui
           /\ IF r.fatal
              THEN Return(1) /\ UNCHANGED idx
              ELSE idx' = idx + 1 /\ UNCHANGED <<pc, result>>
    /\ UNCHANGED <<env, config, handles, teardown, joinCalls, checks, synced,
                   telemetry, gate, signals>>

\* l.95, l.105: the loop over the services is over.
ServicesDone ==
    /\ pc = "services"
    /\ idx > Len(config.Services)
    /\ pc' = "checks"
    /\ idx' = 1
    /\ UNCHANGED <<env, config, ui, handles, teardown, lastErr, joinCalls, services,
                   checks, synced, telemetry, gate, signals, result>>

\* Mutant: a failed check registration ends Run without a message.
OnAddCheckSilent(err, name) == [fatal |-> err, ui |-> <<>>]

\* Mutant: a failed check registration is reported and skipped.
OnAddCheckContinue(err, name) ==
    IF err THEN [fatal |-> FALSE, ui |-> <<<<"Error", "Failed to register check", name>>>>]
           ELSE [fatal |-> FALSE, ui |-> <<>>]

\* l.108-111: what Run does with AddCheck's result for the check `name`.
OnAddCheck(err, name) ==
    IF err THEN [fatal |-> TRUE, ui |-> <<<<"Error", "Failed to register check", name>>>>]
           ELSE [fatal |-> FALSE, ui |-> <<>>]

\* l.105-112: one iteration of the loop over config.Checks.
RegisterCheck ==
    /\ pc = "checks"
    /\ idx <= Len(config.Checks)
    /\ \E err \in BOOLEAN :
         LET name == config.Checks[idx].Name
             r == OnAddCheck(err, name) IN
           /\ checks' = IF err THEN checks ELSE Append(checks, name)
           /\ lastErr' = IF err THEN "check" ELSE lastErr
           /\ ui' = ui \o r.ui
           /\ IF r.fatal
              THEN Return(1) /\ UNCHANGED idx
              ELSE idx' = idx + 1 /\ UNCHANGED <<pc, result>>
    /\ UNCHANGED <<env, config, handles, teardown, joinCalls, services, synced,
                   telemetry, gate, signals>>

\* l.105, l.115: the loop over the checks is over; the agent is told so.
StartSync ==
    /\ pc = "checks"
    /\ idx > Len(config.Checks)
    /\ synced' = synced + 1
    /\ pc' = "banner"
    /\ idx' = 1
    /\ UNCHANGED <<env, config, ui, handles, teardown, lastErr, joinCalls, services,
                   checks, telemetry, gate, signals, result>>

\* ------------------------------------------------------------ banner
\* l.117-130: the lines of the banner, in order.
BannerLines ==
    <<<<"Output", "Consul agent running!">>,
      <<"Info", "Node name">>,
      <<"Info", "Datacenter">>,
      <<"Info", "Server">>,
      <<"Info", "Client Addr">>,
      <<"Info", "Cluster Addr">>,
      <<"Info", "Gossip encrypt">>,
      <<"Info", "">>,
      <<"Output", "Log data will now stream in as it occurs:">>>>

\* Mutant: logGate.Flush() is called after the banner's first line.
AfterBannerLineEarly(i) == "flush"

\* l.117-131: where Run is after line i of the banner; the log gate is flushed
\* after the last one.
AfterBannerLine(i) == IF i = Len(BannerLines) THEN "flush" ELSE "banner"

Banner ==
    /\ pc = "banner"
    /\ idx <= Len(BannerLines)
    /\ ui' = Append(ui, BannerLines[idx])
    /\ idx' = idx + 1
    /\ pc' = AfterBannerLine(idx)
    /\ UNCHANGED <<env, config, handles, teardown, lastErr, joinCalls, services,
                   checks, synced, telemetry, gate, signals, result>>

\* l.131
FlushLogGate ==
    /\ pc = "flush"
    /\ gate' = GateFlush(gate)
    /\ pc' = "handleSignals"
    /\ UNCHANGED <<env, config, ui, handles, teardown, lastErr, registry, telemetry,
                   signals, result>>

\* ------------------------------------------------------------ signals
\* A termination signal reaches the process while handleSignals waits.
TermSignal ==
    /\ pc = "handleSignals"
    /\ ~termSignal
    /\ termSignal' = TRUE
    /\ UNCHANGED <<pc, env, config, ui, handles, teardown, lastErr, registry,
                   telemetry, gate, signalsReturned, result>>

\* Mutant: a dump signal wakes handleSignals too.
handleSignalsWakesOnDump(term, dumped) == term \/ dumped > 0

\* handleSignals blocks until a termination signal; a dump signal is not its
\* business.
handleSignalsWakes(term, dumped) == term

\* l.134: handleSignals returns its exit code once a termination signal came.
HandleSignals ==
    /\ pc = "handleSignals"
    /\ handleSignalsWakes(termSignal, dumps)
    /\ signalsReturned' = TRUE
    /\ \E code \in {0, 1} : Return(code)
    /\ UNCHANGED <<env, config, ui, handles, teardown, lastErr, registry, telemetry,
                   gate, termSignal>>

\* ------------------------------------------------------------ deferred calls
\* The deferred call that runs next: the one deferred last.
NextDeferred(stack) == Last(stack)

\* Mutant: an error from a Shutdown abandons the deferred calls left.
DeferredAfterAbort(stack, err) == IF err THEN <<>> ELSE Front(stack)

\* The deferred calls left once the next one has run, whatever it returned.
DeferredAfter(stack, err) == Front(stack)

\* What Run does with the error a deferred Shutdown returns: the call is a
\* bare `defer x.Shutdown()`, its result is dropped (l.80-85).
OnShutdownResult(h, err) == <<>>

\* l.80-86: on the way out of Run one deferred Shutdown runs.
RunDeferred ==
    /\ pc = "return"
    /\ defers /= <<>>
    /\ LET h == NextDeferred(defers) IN
         /\ shutdowns' = Append(shutdowns, h)
         /\ \E err \in BOOLEAN :
              /\ defers' = DeferredAfter(defers, err)
              /\ shutdownErrs' = IF err THEN shutdownErrs \cup {h} ELSE shutdownErrs
              /\ ui' = ui \o OnShutdownResult(h, err)
    /\ UNCHANGED <<pc, env, config, handles, lastErr, registry, telemetry, gate,
                   signals, result>>

\* Run returns to its caller.
RunReturns ==
    /\ pc = "return"
    /\ defers = <<>>
    /\ pc' = "done"
    /\ UNCHANGED <<env, config, ui, handles, teardown, lastErr, registry, telemetry,
                   gate, signals, result>>

Next ==
    \/ ReadConfig
    \/ CheckGOMAXPROCS
    \/ SetupLoggers
    \/ SetupTelemetry
    \/ DumpSignal
    \/ SetupAgent
    \/ LogWrite
    \/ StartupJoin
    \/ RegisterService
    \/ ServicesDone
    \/ RegisterCheck
    \/ StartSync
    \/ Banner
    \/ FlushLogGate
    \/ TermSignal
    \/ HandleSignals
    \/ RunDeferred
    \/ RunReturns

Spec == Init /\ [][Next]_vars

\* The same program, over every command line.
SpecConfig == InitConfig /\ [][Next]_vars

\* Run is a thread that keeps running: once handleSignals can return it does,
\* and the deferred calls and the return follow.  The runs are those of a
\* command line without flags, with as many join addresses as services as
\* checks.
InitLive ==
    InitWith({a \in CommandLines : a.logLevel = "" /\ a.node = "" /\ a.bind = "" /\ ~a.bogus},
             {d \in Deployments : /\ Len(d.StartJoin) = Len(d.Services)
                                  /\ Len(d.Services) = Len(d.Checks)})

SpecLive ==
    /\ InitLive /\ [][Next]_vars
    /\ WF_vars(HandleSignals)
    /\ WF_vars(RunDeferred)
    /\ WF_vars(RunReturns)

\* ------------------------------------------------------------ the log gate alone
\* The entries written to a log gate exercised on its own.
GateEntries == {"a", "b"}

notGate == <<pc, env, config, ui, handles, teardown, lastErr, registry, telemetry,
             signals, result>>

\* write(entry) on the gate.
GateWriteOp ==
    /\ gate.writes < MaxGateWrites
    /\ \E e \in GateEntries :
         gate' = [GateWrite(gate, e) EXCEPT !.written = Append(@, e)]
    /\ UNCHANGED notGate

\* flush() on the gate.
GateFlushOp ==
    /\ gate.flushes < MaxGateFlushes
    /\ gate' = GateFlush(gate)
    /\ UNCHANGED notGate

InitGate ==
    InitWith({a \in CommandLines : a.logLevel = "" /\ a.node = "" /\ a.bind = "" /\ ~a.bogus},
             {d \in ConfigDeployments : Len(d.Services) = 0 /\ d.StatsiteAddr = ""})

NextGate == GateWriteOp \/ GateFlushOp

\* A log gate under every sequence of writes and flushes.
SpecGate == InitGate /\ [][NextGate]_vars

\* ============================================================ claims
IsPrefix(s, t) == Len(s) <= Len(t) /\ SubSeq(t, 1, Len(s)) = s

Mentions(entry) == \E i \in 1..Len(ui) : ui[i] = entry

Returning == pc \in {"return", "done"}

\* The Shutdown calls of a run whose subsystems started, in the order HTTP,
\* RPC, agent, skipping the handles that are nil.
HeldInOrder ==
    (IF httpServer /= Nil THEN <<"http">> ELSE <<>>)
      \o (IF rpcServer /= Nil THEN <<"rpc">> ELSE <<>>)
      \o (IF agent /= Nil THEN <<"agent">> ELSE <<>>)

StartedHandles == Range(HeldInOrder)

\* C1: with both the HTTP and the RPC handle started, once a termination
\* signal has ended handleSignals the Shutdown calls are made in the order
\* HTTP, RPC, agent, and all three are made before Run returns.
C1_ShutdownOrder ==
    (signalsReturned /\ rpcServer /= Nil /\ httpServer /= Nil) =>
        /\ IsPrefix(shutdowns, <<"http", "rpc", "agent">>)
        /\ (pc = "done" => shutdowns = <<"http", "rpc", "agent">>)

C1_Witness ==
    /\ pc = "done" /\ signalsReturned /\ termSignal
    /\ rpcServer /= Nil /\ httpServer /= Nil
    /\ shutdowns = <<"http", "rpc", "agent">>

\* C2: when setupAgent fails, every subsystem it had started has had its
\* Shutdown called by the time Run returns 1.
C2_StartFailureReleases ==
    lastErr = "agent" =>
        /\ StartedHandles \subseteq Range(shutdowns)
        /\ Returning /\ ret = 1

C2_Witness ==
    /\ pc = "done" /\ lastErr = "agent" /\ ret = 1
    /\ agent /= Nil /\ rpcServer /= Nil
    /\ shutdowns = <<"rpc", "agent">>

\* Run is past startupJoin.
JoinDone ==
    /\ pc \notin {"readConfig", "gomaxprocs", "setupLoggers", "telemetry", "setupAgent",
                  "startupJoin"}
    /\ retFrom \notin {"readConfig", "setupLoggers", "telemetry", "setupAgent"}

\* C3: once startupJoin is over: an empty address list made no join call and
\* did not end Run; a list with a reachable address did not end Run; a list
\* with no reachable address made Run report the error and return 1 with no
\* service, no check and no StartSync.
C3_JoinAsymmetry ==
    JoinDone =>
        LET addrs == config.StartJoin IN
          /\ Len(addrs) = 0 =>
                joinCalls = <<>> /\ retFrom /= "startupJoin"
          /\ Len(addrs) > 0 =>
                /\ Len(joinCalls) = 1 /\ joinCalls[1].addrs = addrs
                /\ joinCalls[1].n > 0 => retFrom /= "startupJoin"
                /\ joinCalls[1].n = 0 =>
                      /\ retFrom = "startupJoin" /\ ret = 1
                      /\ Mentions(<<"Error", "join", 0>>)
                      /\ services = <<>> /\ checks = <<>> /\ synced = 0

C3_Witness ==
    /\ JoinDone /\ pc = "services"
    /\ Len(config.StartJoin) = 2 /\ joinCalls[1].n = 1

\* C4: when AddService fails for the k-th service, Run reports an error naming
\* that service, and only that one, and returns 1; the k-1 services before it
\* stay registered, no later service is tried, no check is registered and
\* StartSync is not called.
C4_ServiceFailFast ==
    lastErr = "service" =>
        LET k == Len(services) + 1 IN
          /\ Returning /\ ret = 1 /\ retFrom = "services"
          /\ idx = k /\ k <= Len(config.Services)
          /\ services = [i \in 1..(k - 1) |-> config.Services[i].Name]
          /\ \A n \in Range(config.Services) :
                Mentions(<<"Error", "Failed to register service", n.Name>>)
                  <=> n.Name = config.Services[k].Name
          /\ checks = <<>> /\ synced = 0

C4_Witness ==
    /\ pc = "done" /\ lastErr = "service"
    /\ Len(config.Services) = 2 /\ services = <<1>>
    /\ Mentions(<<"Error", "Failed to register service", 2>>)

\* C5, as claimed, on the runs whose subsystems started: no Shutdown is called
\* before handleSignals has returned.
C5_NoShutdownBeforeSignal ==
    (lastErr /= "agent" /\ shutdowns /= <<>>) => signalsReturned

\* C5, amended: a Shutdown is called only after handleSignals has returned or
\* after a startup step (subsystem start, join, service registration, check
\* registration) has failed.
C5_ShutdownAfterSignalOrFailure ==
    shutdowns /= <<>> =>
        \/ signalsReturned
        \/ lastErr \in {"agent", "join", "service", "check"}

C5_Witness ==
    /\ shutdowns /= <<>> /\ signalsReturned /\ lastErr = "none"

\* C6: a flag given a non-empty value sets the field of the snapshot, a flag
\* left empty leaves the default.
C6_FlagsOverride ==
    config /= NilConfig =>
        /\ config.LogLevel = (IF args.logLevel /= "" THEN args.logLevel ELSE "INFO")
        /\ config.BindAddr = (IF args.bind /= "" THEN args.bind ELSE "0.0.0.0")
        /\ args.node /= "" => config.NodeName = args.node

DefersRegistered == retFrom \notin {"", "readConfig", "setupLoggers", "telemetry", "setupAgent"}

\* C8: whatever the Shutdown calls return, by the time Run returns the
\* Shutdown of every held handle was called: one call for each, errors or not.
C8_BestEffortTeardown ==
    (pc = "done" /\ DefersRegistered) =>
        /\ StartedHandles = Range(shutdowns)
        /\ Len(shutdowns) = Cardinality(StartedHandles)
        /\ shutdownErrs \subseteq Range(shutdowns)

C8_Witness ==
    /\ pc = "done" /\ DefersRegistered
    /\ shutdownErrs = {"http", "rpc"}
    /\ shutdowns = <<"http", "rpc", "agent">>

\* C9: when Run returns, every error a Shutdown returned is in the
\* operator-facing output.
C9_ShutdownErrorsSurfaced ==
    pc = "done" => \A h \in shutdownErrs : Mentions(<<"Error", "shutdown", h>>)

\* C10: when Run returns from a failed join, service registration or check
\* registration, the Shutdown calls of the held handles are made in the order
\* HTTP, RPC, agent, all of them before Run returns 1.
C10_ReleaseOnFailure ==
    retFrom \in {"startupJoin", "services", "checks"} =>
        /\ ret = 1
        /\ IsPrefix(shutdowns, HeldInOrder)
        /\ (pc = "done" => shutdowns = HeldInOrder)

C10_Witness ==
    /\ pc = "done" /\ retFrom = "checks" /\ lastErr = "check"
    /\ shutdowns = <<"http", "rpc", "agent">>

\* Every line of the banner is in the operator-facing output, in order.
BannerComplete ==
    \E k \in 0..(Len(ui) - Len(BannerLines)) :
        SubSeq(ui, k + 1, k + Len(BannerLines)) = BannerLines

\* C11: whenever the subsystems write their log entries, none is let through
\* the log gate, and the gate is not flushed, before the last line of the
\* banner is out.
C11_BannerBeforeLogs ==
    (gate.out /= <<>> \/ gate.flushed \/ gate.flushes > 0) => BannerComplete

C11_Witness ==
    /\ pc = "banner" /\ idx = Len(BannerLines)
    /\ gate.buf = <<1>> /\ gate.out = <<>> /\ ~gate.flushed

\* C12: under every sequence of writes and flushes: before the first flush
\* nothing is let through and the buffer holds the entries in arrival order;
\* from the first flush on the gate stays flushed, its buffer is empty and what
\* it let through is every entry written, once each, in arrival order.
C12_GateOrder ==
    /\ gate.flushes = 0 =>
          /\ ~gate.flushed /\ gate.out = <<>> /\ gate.buf = gate.written
    /\ gate.flushes > 0 =>
          /\ gate.flushed /\ gate.buf = <<>> /\ gate.out = gate.written

C12_Witness ==
    /\ gate.flushes = 2 /\ gate.flushed
    /\ gate.written = <<"a", "b", "a">> /\ gate.out = gate.written

\* C13: when readConfig, setupLoggers or the statsite sink fails, Run returns 1
\* with no subsystem started, no handle held, nothing deferred and no Shutdown
\* called; and a global sink installed without a statsite address is not a
\* fan-out and has hostname tagging off.
C13_NothingToTearDown ==
    /\ retFrom \in {"readConfig", "setupLoggers", "telemetry"} =>
          /\ ret = 1 /\ lastErr \in {"config", "loggers", "telemetry"}
          /\ agent = Nil /\ rpcServer = Nil /\ httpServer = Nil
          /\ defers = <<>> /\ shutdowns = <<>> /\ shutdownErrs = {}
    /\ (metricsSink.global /\ config.StatsiteAddr = "") =>
          ~metricsSink.fanout /\ ~metricsSink.EnableHostname
    /\ metricsSink.fanout => config.StatsiteAddr /= ""

C13_Witness ==
    /\ pc = "done" /\ retFrom = "telemetry" /\ lastErr = "telemetry"
    /\ ~metricsSink.global /\ agent = Nil /\ shutdowns = <<>>

\* The flag package rejected the command line.
FlagParseFailed == lastErr = "config" /\ ~hostLookup.called

\* An error message is in the operator-facing output (the GOMAXPROCS warning
\* of l.44 is not one).
ErrorReported ==
    \E i \in 1..Len(ui) :
        ui[i][1] = "Error" /\ ui[i] /= <<"Error", "WARNING: GOMAXPROCS">>

\* The error message of the step that failed is in the operator-facing output.
FailureReported ==
    CASE lastErr = "config"    -> Mentions(<<"Error", "Error determining hostname">>)
      [] lastErr = "loggers"   -> Mentions(<<"Error", "Failed to setup logging">>)
      [] lastErr = "telemetry" -> Mentions(<<"Error", "Failed to start statsite sink">>)
      [] lastErr = "agent"     -> \E o \in {"agent", "rpc", "http"} :
                                     Mentions(<<"Error", "Error starting", o>>)
      [] lastErr = "join"      -> Mentions(<<"Error", "join", 0>>)
      [] lastErr = "service"   -> Mentions(<<"Error", "Failed to register service",
                                             config.Services[Len(services) + 1].Name>>)
      [] lastErr = "check"     -> Mentions(<<"Error", "Failed to register check",
                                             config.Checks[Len(checks) + 1].Name>>)
      [] OTHER                 -> FALSE

\* C14, as claimed: when Run returns 1 because a startup step failed, an error
\* message was written to c.Ui.
C14_EveryFailureReported ==
    (pc = "done" /\ ret = 1 /\ ~signalsReturned) => ErrorReported

\* C14, amended: when a startup step other than the flag parse fails, the
\* error message of that step is in c.Ui when Run returns 1.
C14_FailureReportedButFlagParse ==
    (Returning /\ ~signalsReturned /\ ~FlagParseFailed) =>
        ret = 1 /\ FailureReported

C14_Witness ==
    /\ pc = "done" /\ ret = 1 /\ lastErr = "check"
    /\ checks = <<>> /\ Mentions(<<"Error", "Failed to register check", 1>>)

Names(descriptors) == [i \in 1..Len(descriptors) |-> descriptors[i].Name]

\* The number of Output and Info lines in the operator-facing output.
PlainLines == Cardinality({i \in 1..Len(ui) : ui[i][1] /= "Error"})

\* The join step succeeded: nothing to join, or an address was reached.
JoinSucceeded ==
    /\ lastErr /= "join"
    /\ \/ Len(config.StartJoin) = 0 /\ joinCalls = <<>>
       \/ Len(joinCalls) = 1 /\ joinCalls[1].n > 0

\* The step whose failure `e` is.
StepOf(e) ==
    CASE e = "config"    -> "readConfig"
      [] e = "loggers"   -> "setupLoggers"
      [] e = "telemetry" -> "telemetry"
      [] e = "agent"     -> "setupAgent"
      [] e = "join"      -> "startupJoin"
      [] e = "service"   -> "services"
      [] e = "check"     -> "checks"

\* C15: the effects of each step are there only once the step before it has
\* succeeded (in particular no AddService or AddCheck before the subsystems
\* started and the join succeeded), each step's operation is made at most
\* once, and a failed step makes Run return 1 from that step with none of the
\* later steps' operations made.
C15_LinearProgress ==
    /\ gate.created => config /= NilConfig
    /\ metricsSink.signalHandler => gate.created
    /\ (agent /= Nil \/ lastErr = "agent") => metricsSink.global
    /\ (joinCalls /= <<>> \/ lastErr = "join") => agent /= Nil /\ lastErr /= "agent"
    /\ (services /= <<>> \/ lastErr = "service") => agent /= Nil /\ JoinSucceeded
    /\ (checks /= <<>> \/ lastErr = "check") =>
          JoinSucceeded /\ services = Names(config.Services)
    /\ synced > 0 =>
          services = Names(config.Services) /\ checks = Names(config.Checks)
    /\ Mentions(BannerLines[1]) => synced = 1
    /\ gate.flushes > 0 => BannerComplete
    /\ (pc = "handleSignals" \/ termSignal) => gate.flushes = 1
    /\ Len(joinCalls) <= 1 /\ synced <= 1 /\ gate.flushes <= 1
    /\ PlainLines <= Len(BannerLines)
    /\ config /= NilConfig =>
          /\ IsPrefix(services, Names(config.Services))
          /\ IsPrefix(checks, Names(config.Checks))
    /\ lastErr /= "none" =>
          /\ Returning /\ ret = 1 /\ retFrom = StepOf(lastErr)
          /\ synced = 0 /\ gate.flushes = 0 /\ ~termSignal
          /\ ~Mentions(BannerLines[1])
          /\ lastErr \in {"config", "loggers"} => ~gate.created /\ ~metricsSink.signalHandler
          /\ lastErr \in {"config", "loggers", "telemetry"} =>
                agent = Nil /\ ~metricsSink.global
          /\ lastErr \in {"config", "loggers", "telemetry", "agent"} =>
                joinCalls = <<>> /\ defers = <<>>
          /\ lastErr \in {"config", "loggers", "telemetry", "agent", "join"} =>
                services = <<>>
          /\ lastErr /= "check" => checks = <<>>

C15_Witness ==
    /\ pc = "handleSignals" /\ lastErr = "none"
    /\ Len(joinCalls) = 1 /\ services = <<1, 2>> /\ checks = <<1, 2>>
    /\ synced = 1 /\ gate.flushes = 1

\* C16: StartSync is called at most once, and only with every service and
\* every check registered; a failed check registration is reported with the
\* check's name, Run returns 1 and StartSync is not called.
C16_SyncAfterRegistration ==
    /\ synced <= 1
    /\ synced = 1 =>
          /\ lastErr = "none"
          /\ services = Names(config.Services) /\ checks = Names(config.Checks)
    /\ lastErr = "check" =>
          /\ synced = 0 /\ Returning /\ ret = 1
          /\ Len(checks) < Len(config.Checks)
          /\ \A n \in Range(config.Checks) :
                Mentions(<<"Error", "Failed to register check", n.Name>>)
                  <=> n.Name = config.Checks[Len(checks) + 1].Name

C16_Witness ==
    /\ pc = "done" /\ lastErr = "check" /\ synced = 0
    /\ Len(config.Checks) = 2 /\ checks = <<1>>
    /\ Mentions(<<"Error", "Failed to register check", 2>>)

\* C17: while Run waits in handleSignals no Shutdown has been called and
\* nothing is returned, however many dump signals came; a dump signal changes
\* nothing but the count of dumps; Run leaves handleSignals only with a
\* termination signal delivered, and enters it only once.
C17_SignalClasses ==
    /\ [](pc = "handleSignals" =>
            /\ shutdowns = <<>> /\ shutdownErrs = {}
            /\ defers = DeferShutdowns(rpcServer, httpServer)
            /\ ret = -1 /\ ~signalsReturned)
    /\ [](signalsReturned => termSignal /\ Returning)
    /\ [][dumps' /= dumps =>
            /\ dumps' = dumps + 1
            /\ UNCHANGED <<pc, handles, teardown, signals, result, ui, gate>>]_vars
    /\ [][(pc = "handleSignals" /\ pc' /= pc) => (termSignal /\ signalsReturned')]_vars
    /\ [][(pc /= "handleSignals" /\ pc' = "handleSignals") =>
            (pc = "flush" /\ ~termSignal)]_vars
    /\ [][signalsReturned => signalsReturned']_vars

C17_Witness ==
    /\ pc = "handleSignals" /\ ~termSignal /\ dumps = MaxDumps
    /\ shutdowns = <<>> /\ agent /= Nil

\* C18: Shutdown is called on the RPC or the HTTP handle only if the handle
\* is not nil, and a nil handle takes nothing from the others: when Run
\* returns with its defers registered, the handles shut down are exactly the
\* ones held.
C18_AbsentHandlesSkipped ==
    /\ "rpc" \in Range(shutdowns) => rpcServer /= Nil
    /\ "http" \in Range(shutdowns) => httpServer /= Nil
    /\ (pc = "done" /\ DefersRegistered) => shutdowns = HeldInOrder

C18_Witness ==
    /\ pc = "done" /\ DefersRegistered
    /\ rpcServer = Nil /\ httpServer /= Nil
    /\ shutdowns = <<"http", "agent">>

\* C19: once a termination signal is delivered, Run leaves handleSignals,
\* the Shutdown of every held handle is called and Run returns; until the
\* signal is delivered Run stays in handleSignals with no Shutdown called.
C19_EventualShutdown ==
    /\ termSignal ~> (pc = "done" /\ signalsReturned /\ shutdowns = HeldInOrder)
    /\ [][(pc = "handleSignals" /\ ~termSignal) =>
            (pc' = "handleSignals" /\ shutdowns' = <<>>)]_vars

C19_Witness ==
    /\ termSignal /\ signalsReturned /\ pc = "done" /\ ret = 0
    /\ shutdowns = HeldInOrder /\ Len(shutdowns) = 3

\* C20: logGate.Flush is called at most once, and only with StartSync called
\* and the banner out; on a run that fails it is never called, so nothing
\* written to the gate is let through before Run returns.
C20_FlushOnlyOnSuccess ==
    /\ gate.flushes <= 1
    /\ gate.flushes = 1 => synced = 1 /\ BannerComplete /\ lastErr = "none"
    /\ lastErr /= "none" =>
          /\ gate.flushes = 0 /\ ~gate.flushed
          /\ gate.out = <<>> /\ gate.buf = gate.written

C20_Witness ==
    /\ pc = "done" /\ lastErr = "join" /\ ret = 1
    /\ gate.buf = <<1>> /\ gate.out = <<>> /\ gate.flushes = 0

====
